---- MODULE Spec2Model ----
(***************************************************************************)
(* libmidi: the interface pool (midi_init, midi_if_create, midi_destory,   *)
(* callback registration), the outbound encoder (midi_out_report_event)    *)
(* and the inbound decoder (midi_in_recv).                                 *)
(*                                                                         *)
(* Pointers to pool slots are modelled as addresses counted in units of    *)
(* sizeof(struct midi_if): &gv_ifs[i] is gv_ifs_base + i, NULL is 0.       *)
(*                                                                         *)
(* MIDI_ASSERT expands to nothing (midi_config.h:35).  The conditions it   *)
(* states on handles and callbacks are the caller contract outside which   *)
(* the code dereferences NULL or calls through a null pointer; the         *)
(* actions take them as guards on their inputs.                            *)
(*                                                                         *)
(* midi_in_recv is declared in midi.h and has no definition in the         *)
(* sources; the decoder below follows section 4.4 of the design document.  *)
(***************************************************************************)
EXTENDS Integers, Sequences, FiniteSets, TLC

VARIABLES
    gv_ifs,         \* the pool: slot position -> struct midi_if
    dec,            \* decoder state of each slot (IN handles)
    call,           \* the last operation called and its arguments
    ret,            \* what the last operation returned
    sent,           \* invocations of the send callback during the last call
    table_reads,    \* positions of event_status_base read during the last call
    handles,        \* handles returned by create and not yet destroyed
    held,           \* every handle create has returned, destroyed or not
    reused,         \* create has returned a handle it had returned before
    ever_cb,        \* handles a callback was ever registered on
    was_live,       \* the last operation was a destroy of a live handle
    fresh_creates,  \* creates since midi_init, -1 once destroy was called
    wire,           \* every byte fed to the decoder so far
    events,         \* every event the decoder emitted so far
    nops            \* operations performed (lifecycle specification)

vars == <<gv_ifs, dec, call, ret, sent, table_reads, handles, held, reused,
         ever_cb, was_live, fresh_creates, wire, events, nops>>

----------------------------------------------------------------------------
(* Program constants *)

NULL == 0
MIDI_IF_COUNT_MAX == 8
gv_ifs_base == 1000

MIDI_IF_TYPE_IN == 0
MIDI_IF_TYPE_OUT == 1

EVT_SYS_REALTIME_MIN == 0
EVT_SYS_REALTIME_TIMING_CLOCK == 0
EVT_SYS_REALTIME_RESERVED_F9 == 1
EVT_SYS_REALTIME_SEQ_START == 2
EVT_SYS_REALTIME_SEQ_CONTINUE == 3
EVT_SYS_REALTIME_SEQ_STOP == 4
EVT_SYS_REALTIME_RESERVED_FD == 5
EVT_SYS_REALTIME_ACTIVE_SENSE == 6
EVT_SYS_REALTIME_RESET == 7
EVT_SYS_REALTIME_MAX == 7
EVT_CHAN_MIN == 8
EVT_CHAN_NOTE_OFF == 8
EVT_CHAN_NOTE_ON == 9
EVT_CHAN_POLY_AFTERTOUCH == 10
EVT_CHAN_CONTROL_CHANGE == 11
EVT_CHAN_PROGRAM_CHANGE == 12
EVT_CHAN_AFTERTOUCH == 13
EVT_CHAN_PITCH_BEND == 14
EVT_CHAN_MAX == 14
EVT_COUNT == 15

EVT_TYPE_CHANNEL == 0
EVT_TYPE_SYS_REALTIME == 1
EVT_TYPE_SYS_COMMON == 2
EVT_TYPE_UNKNOWN == 3

----------------------------------------------------------------------------
(* Bounds of the model *)

\* operations in one run of the lifecycle specification
MaxOps == 7
\* bytes fed to the decoder in one run of the decoder specification
MaxFeed == 5
\* data-byte samples: 0..MaxLowData, and the same distance around 127/128
MaxLowData == 1
\* operations in one run of the crowded-pool specification
MaxCrowdOps == 4

----------------------------------------------------------------------------
(* Helpers: C integer operations *)

\* bit k of a non-negative integer, p = 2^k
Bit(x, p) == (x \div p) % 2

\* a | b and a & b on operands of 0..255, bit by bit
OrBit(a, b, p) == IF Bit(a, p) = 1 \/ Bit(b, p) = 1 THEN p ELSE 0
AndBit(a, b, p) == IF Bit(a, p) = 1 /\ Bit(b, p) = 1 THEN p ELSE 0

BitOr(a, b) ==
    OrBit(a, b, 1) + OrBit(a, b, 2) + OrBit(a, b, 4) + OrBit(a, b, 8)
    + OrBit(a, b, 16) + OrBit(a, b, 32) + OrBit(a, b, 64) + OrBit(a, b, 128)

BitAnd(a, b) ==
    AndBit(a, b, 1) + AndBit(a, b, 2) + AndBit(a, b, 4) + AndBit(a, b, 8)
    + AndBit(a, b, 16) + AndBit(a, b, 32) + AndBit(a, b, 64) + AndBit(a, b, 128)

\* conversion to unsigned char
U8(x) == x % 256

----------------------------------------------------------------------------
(* The pool *)

Slots == 0 .. (MIDI_IF_COUNT_MAX - 1)

\* &gv_ifs[i]
IfAddr(i) == gv_ifs_base + i

\* the slot a non-null handle points at
SlotOf(pif) == pif - gv_ifs_base

Handles == {IfAddr(i) : i \in Slots}

\* a slot of the zero-initialised static array
ZeroIf == [type |-> 0, cb |-> 0, arg |-> 0, index |-> 0]

\* midi_init: every index set to -1, the rest of the static array untouched
midi_init == [i \in Slots |-> [ZeroIf EXCEPT !.index = -1]]

RECURSIVE ScanFree(_, _)

\* a mutant: the loop bound is one short, the last slot is never handed out
ScanFree_short(ifs, i) ==
    IF i >= MIDI_IF_COUNT_MAX - 1 THEN MIDI_IF_COUNT_MAX
    ELSE IF ifs[i].index = -1 THEN i
    ELSE ScanFree(ifs, i + 1)

\* a mutant: the loop runs from the last slot down, the free slot of
\* highest position is handed out
ScanFree_last(ifs, i) ==
    LET free == {j \in i .. (MIDI_IF_COUNT_MAX - 1) : ifs[j].index = -1} IN
    IF free = {} THEN MIDI_IF_COUNT_MAX
    ELSE CHOOSE j \in free : \A k \in free : k <= j

\* the loop of midi_if_create: the first position from i on whose index is -1,
\* MIDI_IF_COUNT_MAX when the loop runs to its end
ScanFree(ifs, i) ==
    IF i >= MIDI_IF_COUNT_MAX THEN MIDI_IF_COUNT_MAX
    ELSE IF ifs[i].index = -1 THEN i
    ELSE ScanFree(ifs, i + 1)

\* a mutant: the slot is stamped with position + 1
midi_if_create_off(ifs, type) ==
    LET i == ScanFree(ifs, 0) IN
    IF i = MIDI_IF_COUNT_MAX
    THEN [ifs |-> ifs, ret |-> NULL]
    ELSE [ifs |-> [ifs EXCEPT ![i] = [ZeroIf EXCEPT !.type = type, !.index = i + 1]],
          ret |-> IfAddr(i)]

\* a mutant: the slot is not cleared before it is stamped
midi_if_create_nomemset(ifs, type) ==
    LET i == ScanFree(ifs, 0) IN
    IF i = MIDI_IF_COUNT_MAX
    THEN [ifs |-> ifs, ret |-> NULL]
    ELSE [ifs |-> [ifs EXCEPT ![i].type = type, ![i].index = i],
          ret |-> IfAddr(i)]

\* midi_if_create: memset the free slot, stamp type and index, return it
midi_if_create(ifs, type) ==
    LET i == ScanFree(ifs, 0) IN
    IF i = MIDI_IF_COUNT_MAX
    THEN [ifs |-> ifs, ret |-> NULL]
    ELSE [ifs |-> [ifs EXCEPT ![i] = [ZeroIf EXCEPT !.type = type, !.index = i]],
          ret |-> IfAddr(i)]

\* a mutant: the comparison with &gv_ifs[pif->index] is inverted
midi_destory_inverted(ifs, pif) ==
    IF pif = NULL \/ pif = IfAddr(ifs[SlotOf(pif)].index)
    THEN ifs
    ELSE [ifs EXCEPT ![SlotOf(pif)].index = -1]

\* a mutant: destroy clears the slot as well
midi_destory_clear(ifs, pif) ==
    IF pif = NULL \/ pif # IfAddr(ifs[SlotOf(pif)].index)
    THEN ifs
    ELSE [ifs EXCEPT ![SlotOf(pif)] = [ZeroIf EXCEPT !.index = -1]]

\* midi_destory: nothing for NULL or a handle that is not &gv_ifs[pif->index]
midi_destory(ifs, pif) ==
    IF pif = NULL \/ pif # IfAddr(ifs[SlotOf(pif)].index)
    THEN ifs
    ELSE [ifs EXCEPT ![SlotOf(pif)].index = -1]

----------------------------------------------------------------------------
(* Event taxonomy and the outbound encoder *)

\* a mutant: sequence stop carries the bit pattern of its comment, 11111000
event_status_base_stop(evt) ==
    CASE evt = EVT_SYS_REALTIME_TIMING_CLOCK -> 248
      [] evt = EVT_SYS_REALTIME_RESERVED_F9 -> 249
      [] evt = EVT_SYS_REALTIME_SEQ_START -> 250
      [] evt = EVT_SYS_REALTIME_SEQ_CONTINUE -> 251
      [] evt = EVT_SYS_REALTIME_SEQ_STOP -> 248
      [] evt = EVT_SYS_REALTIME_RESERVED_FD -> 253
      [] evt = EVT_SYS_REALTIME_ACTIVE_SENSE -> 254
      [] evt = EVT_SYS_REALTIME_RESET -> 255
      [] evt = EVT_CHAN_NOTE_OFF -> 128
      [] evt = EVT_CHAN_NOTE_ON -> 144
      [] evt = EVT_CHAN_POLY_AFTERTOUCH -> 160
      [] evt = EVT_CHAN_CONTROL_CHANGE -> 176
      [] evt = EVT_CHAN_PROGRAM_CHANGE -> 192
      [] evt = EVT_CHAN_AFTERTOUCH -> 208
      [] evt = EVT_CHAN_PITCH_BEND -> 224

\* the table event_status_base[], indexed by event; it has no other entries
event_status_base(evt) ==
    CASE evt = EVT_SYS_REALTIME_TIMING_CLOCK -> 248
      [] evt = EVT_SYS_REALTIME_RESERVED_F9 -> 249
      [] evt = EVT_SYS_REALTIME_SEQ_START -> 250
      [] evt = EVT_SYS_REALTIME_SEQ_CONTINUE -> 251
      [] evt = EVT_SYS_REALTIME_SEQ_STOP -> 252
      [] evt = EVT_SYS_REALTIME_RESERVED_FD -> 253
      [] evt = EVT_SYS_REALTIME_ACTIVE_SENSE -> 254
      [] evt = EVT_SYS_REALTIME_RESET -> 255
      [] evt = EVT_CHAN_NOTE_OFF -> 128
      [] evt = EVT_CHAN_NOTE_ON -> 144
      [] evt = EVT_CHAN_POLY_AFTERTOUCH -> 160
      [] evt = EVT_CHAN_CONTROL_CHANGE -> 176
      [] evt = EVT_CHAN_PROGRAM_CHANGE -> 192
      [] evt = EVT_CHAN_AFTERTOUCH -> 208
      [] evt = EVT_CHAN_PITCH_BEND -> 224

\* a mutant: the lower limit of the real-time range is exclusive
midi_event_get_type_rtmin(evt) ==
    IF evt >= EVT_CHAN_MIN /\ evt <= EVT_CHAN_MAX THEN EVT_TYPE_CHANNEL
    ELSE IF evt > EVT_SYS_REALTIME_MIN /\ evt <= EVT_SYS_REALTIME_MAX
         THEN EVT_TYPE_SYS_REALTIME
    ELSE EVT_TYPE_UNKNOWN

midi_event_get_type(evt) ==
    IF evt >= EVT_CHAN_MIN /\ evt <= EVT_CHAN_MAX THEN EVT_TYPE_CHANNEL
    ELSE IF evt >= EVT_SYS_REALTIME_MIN /\ evt <= EVT_SYS_REALTIME_MAX
         THEN EVT_TYPE_SYS_REALTIME
    ELSE EVT_TYPE_UNKNOWN

\* struct midi_chan_msg as <<chan, data[0], data[1]>>; a null pointer as <<>>
NullMsg == <<>>
MsgChan(msg) == msg[1]
MsgData(msg, k) == msg[k + 2]

\* a mutant: the upper channel limit is off by one
midi_chan_msg_is_valid_chan17(msg) ==
    /\ MsgChan(msg) > 0 /\ MsgChan(msg) < 18
    /\ MsgData(msg, 0) \div 128 = 0
    /\ MsgData(msg, 1) \div 128 = 0

\* a mutant: the second data byte is not tested
midi_chan_msg_is_valid_data0(msg) ==
    /\ MsgChan(msg) > 0 /\ MsgChan(msg) < 17
    /\ MsgData(msg, 0) \div 128 = 0

midi_chan_msg_is_valid(msg) ==
    /\ MsgChan(msg) > 0 /\ MsgChan(msg) < 17
    /\ MsgData(msg, 0) \div 128 = 0
    /\ MsgData(msg, 1) \div 128 = 0

\* one invocation of the send callback: out_send_cb(buf, len, arg), buf
\* given by its first len bytes
SendCall(pif_rec, buf) ==
    [cb |-> pif_rec.cb, buf |-> buf, len |-> Len(buf), arg |-> pif_rec.arg]

\* a mutant: the status byte carries the channel number, not channel - 1
ChanStatus_chan(evt, msg) ==
    U8(BitOr(event_status_base(evt), MsgChan(msg)))

\* buf[0] of a channel message
ChanStatus(evt, msg) ==
    U8(BitOr(event_status_base(evt), MsgChan(msg) - 1))

\* a mutant: the real-time branch sends and still reports failure
midi_out_report_event_retfail(ifs, pif, evt, msg) ==
    LET evt_type == midi_event_get_type(evt)
        me == ifs[SlotOf(pif)] IN
    IF evt_type = EVT_TYPE_CHANNEL
    THEN IF msg = NullMsg \/ ~midi_chan_msg_is_valid(msg)
         THEN [ret |-> -1, sent |-> <<>>, reads |-> {}]
         ELSE [ret |-> 0,
               sent |-> <<SendCall(me, <<ChanStatus(evt, msg),
                                         MsgData(msg, 0), MsgData(msg, 1)>>)>>,
               reads |-> {evt}]
    ELSE IF evt_type = EVT_TYPE_SYS_REALTIME
    THEN [ret |-> -1, sent |-> <<SendCall(me, <<event_status_base(evt)>>)>>,
          reads |-> {evt}]
    ELSE [ret |-> -1, sent |-> <<>>, reads |-> {}]

\* a mutant: a handle registered with a null argument is refused
midi_out_report_event_needarg(ifs, pif, evt, msg) ==
    LET evt_type == midi_event_get_type(evt)
        me == ifs[SlotOf(pif)] IN
    IF me.arg = NULL
    THEN [ret |-> -1, sent |-> <<>>, reads |-> {}]
    ELSE IF evt_type = EVT_TYPE_CHANNEL
    THEN IF msg = NullMsg \/ ~midi_chan_msg_is_valid(msg)
         THEN [ret |-> -1, sent |-> <<>>, reads |-> {}]
         ELSE [ret |-> 0,
               sent |-> <<SendCall(me, <<ChanStatus(evt, msg),
                                         MsgData(msg, 0), MsgData(msg, 1)>>)>>,
               reads |-> {evt}]
    ELSE IF evt_type = EVT_TYPE_SYS_REALTIME
    THEN [ret |-> 0, sent |-> <<SendCall(me, <<event_status_base(evt)>>)>>,
          reads |-> {evt}]
    ELSE [ret |-> -1, sent |-> <<>>, reads |-> {}]

\* midi_out_report_event: the switch on the event type; the result is the
\* return value, the send-callback invocations made and the positions of
\* event_status_base the call read
midi_out_report_event(ifs, pif, evt, msg) ==
    LET evt_type == midi_event_get_type(evt)
        me == ifs[SlotOf(pif)] IN
    IF evt_type = EVT_TYPE_CHANNEL
    THEN IF msg = NullMsg \/ ~midi_chan_msg_is_valid(msg)
         THEN [ret |-> -1, sent |-> <<>>, reads |-> {}]
         ELSE [ret |-> 0,
               sent |-> <<SendCall(me, <<ChanStatus(evt, msg),
                                         MsgData(msg, 0), MsgData(msg, 1)>>)>>,
               reads |-> {evt}]
    ELSE IF evt_type = EVT_TYPE_SYS_REALTIME
    THEN [ret |-> 0, sent |-> <<SendCall(me, <<event_status_base(evt)>>)>>,
          reads |-> {evt}]
    ELSE [ret |-> -1, sent |-> <<>>, reads |-> {}]

\* a mutant: the note wrapper picks the event the wrong way round
midi_out_report_note_swapped(ifs, pif, chan, onoff, note, v) ==
    midi_out_report_event(ifs, pif,
                          IF onoff # 0 THEN EVT_CHAN_NOTE_OFF ELSE EVT_CHAN_NOTE_ON,
                          <<U8(chan), U8(note), U8(v)>>)

\* midi_out_report_note: the char arguments are stored in the unsigned char
\* fields of a struct midi_chan_msg (conversion modulo 256) and the call is
\* handed to midi_out_report_event; the assertions are compiled out
midi_out_report_note(ifs, pif, chan, onoff, note, v) ==
    midi_out_report_event(ifs, pif,
                          IF onoff # 0 THEN EVT_CHAN_NOTE_ON ELSE EVT_CHAN_NOTE_OFF,
                          <<U8(chan), U8(note), U8(v)>>)

\* midi_out_report_control_change: likewise, for EVT_CHAN_CONTROL_CHANGE
midi_out_report_control_change(ifs, pif, chan, ctrl, v) ==
    midi_out_report_event(ifs, pif, EVT_CHAN_CONTROL_CHANGE,
                          <<U8(chan), U8(ctrl), U8(v)>>)

\* the caller contract of midi_out_report_event
ReportContract(ifs, pif) ==
    /\ pif # NULL
    /\ pif = IfAddr(ifs[SlotOf(pif)].index)
    /\ ifs[SlotOf(pif)].type = MIDI_IF_TYPE_OUT
    /\ ifs[SlotOf(pif)].cb # NULL

----------------------------------------------------------------------------
(* The inbound decoder (design document, section 4.4) *)

\* decoder state of a handle after creation: no running status
FreshDec == [running_status |-> 0, pending_count |-> 0, pending_bytes |-> <<>>]

IsStatusByte(b) == b \div 128 = 1

\* a real-time status byte is the fixed status byte of a real-time kind
RealTimeEvents == EVT_SYS_REALTIME_MIN .. EVT_SYS_REALTIME_MAX
ChannelEvents == EVT_CHAN_MIN .. EVT_CHAN_MAX

\* a channel status byte: its high nibble is the status base of a channel kind
HighNibble(b) == BitAnd(b, 240)

\* the classification of every status byte: the event type, and the event
\* for the types the decoder recognises
StatusClass ==
    [b \in 128 .. 255 |->
        IF \E e \in RealTimeEvents : event_status_base(e) = b
        THEN [type |-> EVT_TYPE_SYS_REALTIME,
              evt |-> CHOOSE e \in RealTimeEvents : event_status_base(e) = b]
        ELSE IF \E e \in ChannelEvents : event_status_base(e) = HighNibble(b)
        THEN [type |-> EVT_TYPE_CHANNEL,
              evt |-> CHOOSE e \in ChannelEvents : event_status_base(e) = HighNibble(b)]
        ELSE [type |-> EVT_TYPE_UNKNOWN, evt |-> EVT_COUNT]]

IsRealTimeStatus(b) == StatusClass[b].type = EVT_TYPE_SYS_REALTIME
RealTimeEventOf(b) == StatusClass[b].evt
IsChannelStatus(b) == StatusClass[b].type = EVT_TYPE_CHANNEL
ChannelEventOf(b) == StatusClass[b].evt

\* data bytes of a channel kind
Arity(evt) ==
    IF evt \in {EVT_CHAN_PROGRAM_CHANGE, EVT_CHAN_AFTERTOUCH} THEN 1 ELSE 2

\* an emitted event: the kind, and for channel kinds the channel and data
RealTimeEvent(evt) == [evt |-> evt, chan |-> 0, data |-> <<>>]
ChannelEvent(evt, chan, data) == [evt |-> evt, chan |-> chan, data |-> data]

\* the data-byte step once a message is in progress
DecodeData(st, b) ==
    LET evt == ChannelEventOf(st.running_status)
        \* a data byte after a completed message starts the next message
        \* under the retained running status
        armed == IF st.pending_count > 0 THEN st
                 ELSE [st EXCEPT !.pending_count = Arity(evt), !.pending_bytes = <<>>]
        bytes == Append(armed.pending_bytes, b)
        left == armed.pending_count - 1 IN
    IF left = 0
    THEN [st |-> [armed EXCEPT !.pending_count = 0, !.pending_bytes = <<>>],
          out |-> <<ChannelEvent(evt, BitAnd(st.running_status, 15) + 1, bytes)>>]
    ELSE [st |-> [armed EXCEPT !.pending_count = left, !.pending_bytes = bytes],
          out |-> <<>>]

\* a mutant: the running status is dropped once a message is complete
DecodeByte_norun(st, b) ==
    IF IsStatusByte(b)
    THEN IF IsRealTimeStatus(b)
         THEN [st |-> st, out |-> <<RealTimeEvent(RealTimeEventOf(b))>>]
         ELSE IF IsChannelStatus(b)
         THEN [st |-> [running_status |-> b,
                       pending_count |-> Arity(ChannelEventOf(b)),
                       pending_bytes |-> <<>>],
               out |-> <<>>]
         ELSE [st |-> [st EXCEPT !.running_status = 0], out |-> <<>>]
    ELSE IF st.running_status # 0
         THEN LET r == DecodeData(st, b) IN
              IF r.out = <<>> THEN r
              ELSE [st |-> [r.st EXCEPT !.running_status = 0], out |-> r.out]
         ELSE [st |-> st, out |-> <<>>]

\* a mutant: a real-time byte restarts the message in progress
DecodeByte_rtreset(st, b) ==
    IF IsStatusByte(b)
    THEN IF IsRealTimeStatus(b)
         THEN [st |-> [st EXCEPT !.pending_bytes = <<>>],
               out |-> <<RealTimeEvent(RealTimeEventOf(b))>>]
         ELSE IF IsChannelStatus(b)
         THEN [st |-> [running_status |-> b,
                       pending_count |-> Arity(ChannelEventOf(b)),
                       pending_bytes |-> <<>>],
               out |-> <<>>]
         ELSE [st |-> [st EXCEPT !.running_status = 0], out |-> <<>>]
    ELSE IF st.running_status # 0
         THEN DecodeData(st, b)
         ELSE [st |-> st, out |-> <<>>]

\* a mutant: a status byte of neither class is skipped, the running status
\* stays
DecodeByte_keeprun(st, b) ==
    IF IsStatusByte(b)
    THEN IF IsRealTimeStatus(b)
         THEN [st |-> st, out |-> <<RealTimeEvent(RealTimeEventOf(b))>>]
         ELSE IF IsChannelStatus(b)
         THEN [st |-> [running_status |-> b,
                       pending_count |-> Arity(ChannelEventOf(b)),
                       pending_bytes |-> <<>>],
               out |-> <<>>]
         ELSE [st |-> st, out |-> <<>>]
    ELSE IF st.running_status # 0
         THEN DecodeData(st, b)
         ELSE [st |-> st, out |-> <<>>]

\* one byte of the stream: the new decoder state and the events emitted
DecodeByte(st, b) ==
    IF IsStatusByte(b)
    THEN IF IsRealTimeStatus(b)
         THEN [st |-> st, out |-> <<RealTimeEvent(RealTimeEventOf(b))>>]
         ELSE IF IsChannelStatus(b)
         THEN [st |-> [running_status |-> b,
                       pending_count |-> Arity(ChannelEventOf(b)),
                       pending_bytes |-> <<>>],
               out |-> <<>>]
         ELSE [st |-> [st EXCEPT !.running_status = 0], out |-> <<>>]
    ELSE IF st.running_status # 0
         THEN DecodeData(st, b)
         ELSE [st |-> st, out |-> <<>>]

\* the loop over the bytes of the buffer, in order; out collects the events
RECURSIVE RecvLoop(_, _, _)
RecvLoop(st, data, out) ==
    IF data = <<>>
    THEN [st |-> st, out |-> out]
    ELSE CHOOSE r \in {RecvLoop(one.st, Tail(data), out \o one.out) :
                         one \in {DecodeByte(st, Head(data))}} : TRUE

\* midi_in_recv: every byte of data is consumed by the call
midi_in_recv(st, data) == RecvLoop(st, data, <<>>)

\* the caller contract of midi_in_recv
RecvContract(ifs, pif) ==
    /\ pif # NULL
    /\ pif = IfAddr(ifs[SlotOf(pif)].index)
    /\ ifs[SlotOf(pif)].type = MIDI_IF_TYPE_IN
    /\ ifs[SlotOf(pif)].cb # NULL

----------------------------------------------------------------------------
(* Callback registration *)

\* midi_in_register_event_cb: pif->cb.in_event_cb = cb
midi_in_register_event_cb(ifs, pif, cb) ==
    [ifs EXCEPT ![SlotOf(pif)].cb = cb]

\* midi_out_register_send_cb: pif->cb.out_send_cb = cb; pif->arg = arg
midi_out_register_send_cb(ifs, pif, cb, arg) ==
    [ifs EXCEPT ![SlotOf(pif)].cb = cb, ![SlotOf(pif)].arg = arg]

----------------------------------------------------------------------------
(* Inputs of the operations *)

IfTypes == {MIDI_IF_TYPE_IN, MIDI_IF_TYPE_OUT}

\* the type created in the pool specification: neither the scan of create
\* nor destroy reads the type, and the lifecycle specification creates both
PoolTypes == {MIDI_IF_TYPE_OUT}

\* the application's callbacks and opaque arguments, as addresses
EventCbs == {501}
SendCbs == {601}
CbArgs == {NULL, 701}

\* a handle argument: a pointer create has returned (the application has no
\* other way to a slot address), destroyed since or not, or NULL
PifArgs == held \cup {NULL}

Min(a, b) == IF a < b THEN a ELSE b

\* values of an unsigned char data byte: both sides of the 7-bit limit
DataVals == (0 .. MaxLowData) \cup ((126 - MaxLowData + 1) .. (128 + MaxLowData)) \cup {255}

\* values of the unsigned char channel: both sides of 1..16
ChanVals == (0 .. 17) \cup {255}

\* events given to report: every enumerator, EVT_COUNT and its neighbours
ReportEvts == (-1) .. (EVT_COUNT + 1)

ReportMsgs == {NullMsg} \cup {<<c, d0, d1>> : c \in ChanVals, d0 \in DataVals, d1 \in DataVals}

\* values of the char arguments of the wrappers (a signed char): both
\* ends of the range, both sides of zero and of the channel limits
CharChans == {-128, -1, 0, 1, 2, 15, 16, 17, 127}
CharData == {-128, -1, 0, 1, 126, 127}
OnOffVals == {-1, 0, 1, 2}

\* the few reports of the lifecycle specification
LifeEvts == {EVT_SYS_REALTIME_TIMING_CLOCK, EVT_CHAN_NOTE_ON, EVT_COUNT}
LifeMsgs == {NullMsg, <<1, 60, 100>>}

\* bytes fed to the decoder: note on (channel 1), program change
\* (channel 2), timing clock, system exclusive, and three data bytes
RecvBytes == {144, 193, 248, 240, 0, 5, 127}

----------------------------------------------------------------------------
(* Actions: one per operation *)

NoCall == [op |-> "midi_init", pif |-> NULL, type |-> 0, cb |-> NULL, arg |-> NULL,
           evt |-> 0, msg |-> NullMsg, onoff |-> 0]

Create(type) ==
    LET r == midi_if_create(gv_ifs, type) IN
    /\ gv_ifs' = r.ifs
    /\ ret' = r.ret
    /\ call' = [NoCall EXCEPT !.op = "midi_if_create", !.type = type]
    /\ sent' = <<>>
    /\ table_reads' = {}
    /\ handles' = IF r.ret # NULL THEN handles \cup {r.ret} ELSE handles
    /\ held' = IF r.ret # NULL THEN held \cup {r.ret} ELSE held
    /\ reused' = (reused \/ r.ret \in held)
    /\ was_live' = FALSE
    /\ fresh_creates' = IF fresh_creates = -1 THEN -1
                        ELSE Min(fresh_creates + 1, MIDI_IF_COUNT_MAX + 2)
    \* the decoder state is part of the slot that memset clears
    /\ dec' = IF r.ret # NULL THEN [dec EXCEPT ![SlotOf(r.ret)] = FreshDec] ELSE dec
    /\ UNCHANGED <<ever_cb, wire, events>>

Destroy(pif) ==
    /\ gv_ifs' = midi_destory(gv_ifs, pif)
    /\ ret' = 0
    /\ call' = [NoCall EXCEPT !.op = "midi_destory", !.pif = pif]
    /\ sent' = <<>>
    /\ table_reads' = {}
    /\ handles' = handles \ {pif}
    /\ was_live' = (pif \in handles)
    /\ fresh_creates' = -1
    /\ UNCHANGED <<dec, held, reused, ever_cb, wire, events>>

RegisterIn(pif, cb) ==
    /\ pif # NULL
    /\ gv_ifs[SlotOf(pif)].type = MIDI_IF_TYPE_IN
    /\ cb # NULL
    /\ gv_ifs' = midi_in_register_event_cb(gv_ifs, pif, cb)
    /\ ret' = 0
    /\ call' = [NoCall EXCEPT !.op = "midi_in_register_event_cb", !.pif = pif, !.cb = cb]
    /\ sent' = <<>>
    /\ table_reads' = {}
    /\ ever_cb' = ever_cb \cup {pif}
    /\ was_live' = FALSE
    /\ UNCHANGED <<dec, handles, held, reused, fresh_creates, wire, events>>

RegisterOut(pif, cb, arg) ==
    /\ pif # NULL
    /\ gv_ifs[SlotOf(pif)].type = MIDI_IF_TYPE_OUT
    /\ cb # NULL
    /\ gv_ifs' = midi_out_register_send_cb(gv_ifs, pif, cb, arg)
    /\ ret' = 0
    /\ call' = [NoCall EXCEPT !.op = "midi_out_register_send_cb", !.pif = pif,
                              !.cb = cb, !.arg = arg]
    /\ sent' = <<>>
    /\ table_reads' = {}
    /\ ever_cb' = ever_cb \cup {pif}
    /\ was_live' = FALSE
    /\ UNCHANGED <<dec, handles, held, reused, fresh_creates, wire, events>>

Report(pif, evt, msg) ==
    /\ ReportContract(gv_ifs, pif)
    /\ LET r == midi_out_report_event(gv_ifs, pif, evt, msg) IN
       /\ ret' = r.ret
       /\ sent' = r.sent
       /\ table_reads' = r.reads
    /\ call' = [NoCall EXCEPT !.op = "midi_out_report_event", !.pif = pif,
                              !.evt = evt, !.msg = msg]
    /\ was_live' = FALSE
    /\ UNCHANGED <<gv_ifs, dec, handles, held, reused, ever_cb, fresh_creates,
                   wire, events>>

\* the wrappers record their char arguments in call.msg as <<chan, note or
\* ctrl, v>>, unconverted
ReportNote(pif, chan, onoff, note, v) ==
    /\ ReportContract(gv_ifs, pif)
    /\ LET r == midi_out_report_note(gv_ifs, pif, chan, onoff, note, v) IN
       /\ ret' = r.ret
       /\ sent' = r.sent
       /\ table_reads' = r.reads
    /\ call' = [NoCall EXCEPT !.op = "midi_out_report_note", !.pif = pif,
                              !.onoff = onoff, !.msg = <<chan, note, v>>]
    /\ was_live' = FALSE
    /\ UNCHANGED <<gv_ifs, dec, handles, held, reused, ever_cb, fresh_creates,
                   wire, events>>

ReportControlChange(pif, chan, ctrl, v) ==
    /\ ReportContract(gv_ifs, pif)
    /\ LET r == midi_out_report_control_change(gv_ifs, pif, chan, ctrl, v) IN
       /\ ret' = r.ret
       /\ sent' = r.sent
       /\ table_reads' = r.reads
    /\ call' = [NoCall EXCEPT !.op = "midi_out_report_control_change", !.pif = pif,
                              !.msg = <<chan, ctrl, v>>]
    /\ was_live' = FALSE
    /\ UNCHANGED <<gv_ifs, dec, handles, held, reused, ever_cb, fresh_creates,
                   wire, events>>

Recv(pif, data) ==
    /\ RecvContract(gv_ifs, pif)
    /\ Len(wire) + Len(data) <= MaxFeed
    /\ \E r \in {midi_in_recv(dec[SlotOf(pif)], data)} :
          /\ dec' = [dec EXCEPT ![SlotOf(pif)] = r.st]
          /\ events' = events \o r.out
    /\ wire' = wire \o data
    /\ ret' = 0
    /\ call' = [NoCall EXCEPT !.op = "midi_in_recv", !.pif = pif]
    /\ sent' = <<>>
    /\ table_reads' = {}
    /\ was_live' = FALSE
    /\ UNCHANGED <<gv_ifs, handles, held, reused, ever_cb, fresh_creates>>

----------------------------------------------------------------------------
(* Specifications *)

\* the state midi_init leaves
Init ==
    /\ gv_ifs = midi_init
    /\ dec = [i \in Slots |-> FreshDec]
    /\ call = NoCall
    /\ ret = 0
    /\ sent = <<>>
    /\ table_reads = {}
    /\ handles = {}
    /\ held = {}
    /\ reused = FALSE
    /\ ever_cb = {}
    /\ was_live = FALSE
    /\ fresh_creates = 0
    /\ wire = <<>>
    /\ events = <<>>
    /\ nops = 0

\* Lifecycle: every pool operation and report, MaxOps operations a run
Tick == nops < MaxOps /\ nops' = nops + 1

LifeCreate == Tick /\ \E type \in IfTypes : Create(type)
LifeDestroy == Tick /\ \E pif \in PifArgs : Destroy(pif)
LifeRegisterIn == Tick /\ \E pif \in PifArgs, cb \in EventCbs : RegisterIn(pif, cb)
LifeRegisterOut ==
    Tick /\ \E pif \in PifArgs, cb \in SendCbs, arg \in CbArgs : RegisterOut(pif, cb, arg)
LifeReport ==
    Tick /\ \E pif \in PifArgs, evt \in LifeEvts, msg \in LifeMsgs : Report(pif, evt, msg)

Next ==
    \/ LifeCreate
    \/ LifeDestroy
    \/ LifeRegisterIn
    \/ LifeRegisterOut
    \/ LifeReport

Spec == Init /\ [][Next]_vars

\* Pool: create and destroy alone, any number of them
PoolCreate == UNCHANGED nops /\ \E type \in PoolTypes : Create(type)
PoolDestroy == UNCHANGED nops /\ \E pif \in PifArgs : Destroy(pif)

NextPool == PoolCreate \/ PoolDestroy

SpecPool == Init /\ [][NextPool]_vars

\* Crowded pool: create, destroy and registration, MaxCrowdOps operations a
\* run, on a pool with one free slot left: every slot but the last created
\* as an OUT handle, a send callback registered on those of even position
RECURSIVE CrowdCreate(_, _)
CrowdCreate(ifs, n) ==
    IF n = 0 THEN ifs
    ELSE CrowdCreate(midi_if_create(ifs, MIDI_IF_TYPE_OUT).ifs, n - 1)

RECURSIVE CrowdRegister(_, _)
CrowdRegister(ifs, i) ==
    IF i >= MIDI_IF_COUNT_MAX - 1 THEN ifs
    ELSE CrowdRegister(midi_out_register_send_cb(ifs, IfAddr(i), 601, 701), i + 2)

CrowdPool == CrowdRegister(CrowdCreate(midi_init, MIDI_IF_COUNT_MAX - 1), 0)

CrowdHandles == {IfAddr(i) : i \in 0 .. (MIDI_IF_COUNT_MAX - 2)}

InitCrowd ==
    /\ gv_ifs = CrowdPool
    /\ dec = [i \in Slots |-> FreshDec]
    /\ call = NoCall
    /\ ret = 0
    /\ sent = <<>>
    /\ table_reads = {}
    /\ handles = CrowdHandles
    /\ held = CrowdHandles
    /\ reused = FALSE
    /\ ever_cb = {h \in CrowdHandles : SlotOf(h) % 2 = 0}
    /\ was_live = FALSE
    /\ fresh_creates = MIDI_IF_COUNT_MAX - 1
    /\ wire = <<>>
    /\ events = <<>>
    /\ nops = 0

CrowdTick == nops < MaxCrowdOps /\ nops' = nops + 1

CrowdCreateOp == CrowdTick /\ \E type \in IfTypes : Create(type)
CrowdDestroy == CrowdTick /\ \E pif \in PifArgs : Destroy(pif)
CrowdRegisterIn ==
    CrowdTick /\ \E pif \in PifArgs, cb \in EventCbs : RegisterIn(pif, cb)
CrowdRegisterOut ==
    CrowdTick /\ \E pif \in PifArgs, cb \in SendCbs, arg \in CbArgs : RegisterOut(pif, cb, arg)

NextCrowd ==
    \/ CrowdCreateOp
    \/ CrowdDestroy
    \/ CrowdRegisterIn
    \/ CrowdRegisterOut

SpecCrowd == InitCrowd /\ [][NextCrowd]_vars

\* Codec: an OUT handle with a send callback in slot 0 and an IN handle with
\* an event callback in slot 1, as create and registration leave them
OutHandle == IfAddr(0)
InHandle == IfAddr(1)

SetupPool ==
    LET a == midi_if_create(midi_init, MIDI_IF_TYPE_OUT).ifs
        b == midi_out_register_send_cb(a, OutHandle, 601, 701)
        c == midi_if_create(b, MIDI_IF_TYPE_IN).ifs IN
    midi_in_register_event_cb(c, InHandle, 501)

InitCodec ==
    /\ gv_ifs = SetupPool
    /\ dec = [i \in Slots |-> FreshDec]
    /\ call = NoCall
    /\ ret = 0
    /\ sent = <<>>
    /\ table_reads = {}
    /\ handles = {OutHandle, InHandle}
    /\ held = {OutHandle, InHandle}
    /\ reused = FALSE
    /\ ever_cb = {OutHandle, InHandle}
    /\ was_live = FALSE
    /\ fresh_creates = 2
    /\ wire = <<>>
    /\ events = <<>>
    /\ nops = 0

\* Encoder: one report a run, of every event with every sampled payload or
\* through a wrapper with every sampled argument (a report leaves the pool
\* as it was, so a second report starts where the first did)
OutReport ==
    /\ nops = 0
    /\ nops' = nops + 1
    /\ \E pif \in PifArgs, evt \in ReportEvts, msg \in ReportMsgs : Report(pif, evt, msg)

OutReportNote ==
    /\ nops = 0
    /\ nops' = nops + 1
    /\ \E pif \in PifArgs, chan \in CharChans, onoff \in OnOffVals,
          note \in CharData, v \in CharData : ReportNote(pif, chan, onoff, note, v)

OutReportControlChange ==
    /\ nops = 0
    /\ nops' = nops + 1
    /\ \E pif \in PifArgs, chan \in CharChans, ctrl \in CharData, v \in CharData :
          ReportControlChange(pif, chan, ctrl, v)

NextOut ==
    \/ OutReport
    \/ OutReportNote
    \/ OutReportControlChange

SpecOut == InitCodec /\ [][NextOut]_vars

\* Decoder: byte streams of up to MaxFeed bytes, cut into calls anywhere
InRecv ==
    /\ UNCHANGED nops
    /\ \E pif \in PifArgs, len \in 0 .. (MaxFeed - Len(wire)) :
          \E data \in [1 .. len -> RecvBytes] : Recv(pif, data)

NextIn == InRecv

SpecIn == InitCodec /\ [][NextIn]_vars

----------------------------------------------------------------------------
(* Properties of the pool *)

IsCreate(c) == c.op = "midi_if_create"
IsDestroy(c) == c.op = "midi_destory"
IsReport(c) == c.op = "midi_out_report_event"

FreeSlots(ifs) == {i \in Slots : ifs[i].index = -1}

\* C1, first half: of the creates made on a freshly initialised pool with no
\* destroy in between, the first MIDI_IF_COUNT_MAX each return a handle and
\* the one after them returns NULL
C1_FreshCreates ==
    IsCreate(call) =>
        /\ fresh_creates \in 1 .. MIDI_IF_COUNT_MAX => ret \in Handles
        /\ fresh_creates = MIDI_IF_COUNT_MAX + 1 => ret = NULL

\* C1, second half: the create that follows the destroy of a live handle
\* returns a handle
C1_CreateAfterDestroy ==
    (IsDestroy(call) /\ was_live /\ IsCreate(call')) => ret' \in Handles

\* C1 (pool exhaustion): capacity + 1 creates on a fresh pool: exactly the
\* last one fails; after one live handle is destroyed the next create succeeds
C1_PoolExhaustion == [](C1_FreshCreates) /\ [][C1_CreateAfterDestroy]_vars

\* the create that finds the fresh pool exhausted
C1_Witness ==
    /\ IsCreate(call)
    /\ fresh_creates = MIDI_IF_COUNT_MAX + 1
    /\ ret = NULL
    /\ Cardinality(handles) = MIDI_IF_COUNT_MAX

\* C9: a destroy of NULL or of a handle whose stored index is -1 changes no slot
C9_InvalidIsNoOp ==
    (IsDestroy(call') /\ (call'.pif = NULL \/ gv_ifs[SlotOf(call'.pif)].index = -1))
        => gv_ifs' = gv_ifs

\* C9: a destroy of a live handle sets the index of its slot to -1, and nothing else
C9_LiveIsFreed ==
    (IsDestroy(call') /\ call'.pif \in handles)
        => gv_ifs' = [gv_ifs EXCEPT ![SlotOf(call'.pif)].index = -1]

\* C9: the freed slot is eligible for the next create (which returns it when
\* no slot before it is free)
C9_FreedIsReused ==
    (IsDestroy(call) /\ was_live /\ IsCreate(call'))
        => /\ ret' \in Handles
           /\ SlotOf(ret') <= SlotOf(call.pif)
           /\ (\A j \in Slots : j < SlotOf(call.pif) => gv_ifs[j].index # -1)
                 => ret' = call.pif

\* C9: the same handle destroyed twice in a row: the second destroy frees nothing
C9_TwiceFreesOne ==
    (IsDestroy(call) /\ was_live /\ IsDestroy(call') /\ call'.pif = call.pif)
        => /\ gv_ifs' = gv_ifs
           /\ FreeSlots(gv_ifs') = FreeSlots(gv_ifs)

\* C9 (handle invalidation): destroying a destroyed or null handle is a no-op;
\* destroying a live handle frees exactly its slot, for reuse by a later
\* create; a handle destroyed twice in a row frees one slot
C9_HandleInvalidation ==
    /\ [][C9_InvalidIsNoOp]_vars
    /\ [][C9_LiveIsFreed]_vars
    /\ [][C9_FreedIsReused]_vars
    /\ [][C9_TwiceFreesOne]_vars

\* a destroy of a handle that was destroyed before
C9_Witness ==
    /\ IsDestroy(call)
    /\ ~was_live
    /\ call.pif \in held
    /\ gv_ifs[SlotOf(call.pif)].index = -1
    /\ handles # {}

\* C10 (slot self-consistency): the stored index of every slot is -1 or the
\* position of the slot, and it is the position for every handle create
\* returned that was not destroyed since
C10_SlotSelfConsistent ==
    /\ \A i \in Slots : gv_ifs[i].index \in {-1, i}
    /\ \A h \in handles : h \in Handles /\ gv_ifs[SlotOf(h)].index = SlotOf(h)

\* a report through a live handle while another slot was created and freed
C10_Witness ==
    /\ IsReport(call)
    /\ ret = 0
    /\ call.pif \in handles
    /\ \E h \in held \ handles : gv_ifs[SlotOf(h)].index = -1

----------------------------------------------------------------------------
(* Properties of the outbound encoder *)

\* the report is of a channel kind with a payload in range
ValidChannelReport ==
    /\ IsReport(call)
    /\ call.evt \in ChannelEvents
    /\ call.msg # NullMsg
    /\ MsgChan(call.msg) \in 1 .. 16
    /\ MsgData(call.msg, 0) \in 0 .. 127
    /\ MsgData(call.msg, 1) \in 0 .. 127

\* the report is of a channel kind with no payload or one out of range
InvalidChannelReport ==
    /\ IsReport(call)
    /\ call.evt \in ChannelEvents
    /\ \/ call.msg = NullMsg
       \/ MsgChan(call.msg) \notin 1 .. 16
       \/ MsgData(call.msg, 0) > 127
       \/ MsgData(call.msg, 1) > 127

\* the status bases and fixed status bytes as the documentation lists them
DocStatusBase(evt) ==
    CASE evt = EVT_CHAN_NOTE_OFF -> 128
      [] evt = EVT_CHAN_NOTE_ON -> 144
      [] evt = EVT_CHAN_POLY_AFTERTOUCH -> 160
      [] evt = EVT_CHAN_CONTROL_CHANGE -> 176
      [] evt = EVT_CHAN_PROGRAM_CHANGE -> 192
      [] evt = EVT_CHAN_AFTERTOUCH -> 208
      [] evt = EVT_CHAN_PITCH_BEND -> 224

DocRealTimeByte(evt) ==
    CASE evt = EVT_SYS_REALTIME_TIMING_CLOCK -> 248
      [] evt = EVT_SYS_REALTIME_RESERVED_F9 -> 249
      [] evt = EVT_SYS_REALTIME_SEQ_START -> 250
      [] evt = EVT_SYS_REALTIME_SEQ_CONTINUE -> 251
      [] evt = EVT_SYS_REALTIME_SEQ_STOP -> 252
      [] evt = EVT_SYS_REALTIME_RESERVED_FD -> 253
      [] evt = EVT_SYS_REALTIME_ACTIVE_SENSE -> 254
      [] evt = EVT_SYS_REALTIME_RESET -> 255

\* what a fresh IN handle emits when fed the bytes of the last send
DecodedFromSent == midi_in_recv(FreshDec, sent[1].buf).out

\* C2 (round trip, channel): the bytes sent for a channel event with a valid
\* payload, fed to a fresh decoder, make it emit exactly one event, of the
\* same kind, channel and data (the data bytes the kind carries)
C2_RoundTripChannel ==
    ValidChannelReport =>
        /\ Len(sent) = 1
        /\ DecodedFromSent =
              <<ChannelEvent(call.evt, MsgChan(call.msg),
                             SubSeq(<<MsgData(call.msg, 0), MsgData(call.msg, 1)>>,
                                    1, Arity(call.evt)))>>

\* C3 (range rejection): a channel report with a channel outside 1..16, a
\* data byte above 127 or a null payload returns -1 and sends nothing
C3_RangeRejection ==
    InvalidChannelReport => (ret = -1 /\ sent = <<>>)

\* a note-on report on channel 17 with data in range
C3_Witness ==
    /\ InvalidChannelReport
    /\ call.evt = EVT_CHAN_NOTE_ON
    /\ call.msg = <<17, 0, 127>>
    /\ ret = -1

\* C4: a report returns 0 exactly when it invoked the send callback once and
\* -1 exactly when it did not invoke it; it never invokes it twice
C4_ReturnMatchesSend ==
    IsReport(call) =>
        /\ ret \in {0, -1}
        /\ Len(sent) <= 1
        /\ (ret = 0 <=> Len(sent) = 1)
        /\ (ret = -1 <=> Len(sent) = 0)

\* a real-time report, which succeeded
C4_Witness ==
    /\ IsReport(call)
    /\ call.evt = EVT_SYS_REALTIME_SEQ_START
    /\ ret = 0
    /\ Len(sent) = 1

\* C5 (channel encoding): a channel report with a valid payload sends the
\* three bytes [status base of the kind | (channel - 1), data0, data1], also
\* for program change and channel aftertouch
C5_ChannelEncoding ==
    ValidChannelReport =>
        /\ Len(sent) = 1
        /\ sent[1].len = 3
        /\ sent[1].buf = <<DocStatusBase(call.evt) + (MsgChan(call.msg) - 1),
                           MsgData(call.msg, 0), MsgData(call.msg, 1)>>
        /\ sent[1].cb = gv_ifs[SlotOf(call.pif)].cb
        /\ sent[1].arg = gv_ifs[SlotOf(call.pif)].arg

\* a program change on channel 16: three bytes sent
C5_Witness ==
    /\ ValidChannelReport
    /\ call.evt = EVT_CHAN_PROGRAM_CHANGE
    /\ call.msg = <<16, 1, 127>>
    /\ sent[1].buf = <<207, 1, 127>>

----------------------------------------------------------------------------
(* Properties of the inbound decoder *)

IsDataByte(b) == b < 128

\* the decoder state of the IN handle
InDec == dec[SlotOf(InHandle)]

TimingClock == RealTimeEvent(EVT_SYS_REALTIME_TIMING_CLOCK)

\* C7: whatever the decoder state, each byte 0xF8..0xFF makes the decoder
\* emit the real-time event of that byte and leaves the state as it was
C7_AnyRealTimeByte ==
    \A b \in 248 .. 255 :
        DecodeByte(InDec, b) =
            [st |-> InDec, out |-> <<RealTimeEvent(EVT_SYS_REALTIME_MIN + (b - 248))>>]

\* C7: a call that feeds the one byte 0xF8 emits timing clock and changes
\* neither running_status, pending_count nor pending_bytes
C7_ClockStep ==
    wire' = Append(wire, 248) => (dec' = dec /\ events' = Append(events, TimingClock))

\* C7: [note-on status channel 1, 0xF8, data0, data1] emits timing clock at
\* the 0xF8 byte and the note on when data1 arrives
C7_Example ==
    /\ wire = <<144, 248>> => events = <<TimingClock>>
    /\ (Len(wire) = 3 /\ SubSeq(wire, 1, 2) = <<144, 248>> /\ IsDataByte(wire[3]))
          => events = <<TimingClock>>
    /\ (Len(wire) = 4 /\ SubSeq(wire, 1, 2) = <<144, 248>>
          /\ IsDataByte(wire[3]) /\ IsDataByte(wire[4]))
          => events = <<TimingClock, ChannelEvent(EVT_CHAN_NOTE_ON, 1, <<wire[3], wire[4]>>)>>

\* C7 (real-time interleaving): a real-time status byte is emitted at once in
\* any decoder state and leaves the message in progress undisturbed
C7_RealTimeInterleaving ==
    /\ [](C7_AnyRealTimeByte)
    /\ [][C7_ClockStep]_vars
    /\ [](C7_Example)

\* the note on completed after a timing clock cut into it
C7_Witness ==
    /\ wire = <<144, 248, 5, 127>>
    /\ events = <<TimingClock, ChannelEvent(EVT_CHAN_NOTE_ON, 1, <<5, 127>>)>>
    /\ InDec.running_status = 144

\* the stream is one channel status byte and data bytes after it
OneStatusStream ==
    /\ wire # <<>>
    /\ wire[1] \in 128 .. 239
    /\ \A k \in 2 .. Len(wire) : IsDataByte(wire[k])

\* kind, channel and data-byte count a channel status byte stands for
KindOfStatus(b) == EVT_CHAN_MIN + ((b \div 16) - 8)
ChanOfStatus(b) == (b % 16) + 1
DataCountOfStatus(b) == IF b \div 16 \in {12, 13} THEN 1 ELSE 2

\* C8, in general: after one channel status byte, every further full group
\* of data bytes is one more event of the same kind and channel, and the
\* running status stays that status byte
C8_RunningStatusKept ==
    OneStatusStream =>
        LET n == DataCountOfStatus(wire[1])
            data == Tail(wire)
        IN /\ InDec.running_status = wire[1]
           /\ events = [k \in 1 .. (Len(data) \div n) |->
                           ChannelEvent(KindOfStatus(wire[1]), ChanOfStatus(wire[1]),
                                        SubSeq(data, (k - 1) * n + 1, k * n))]

\* C8: [note-on status channel 1, data0, data1, data0', data1'] emits two
\* note-on events on channel 1, in this order
C8_Example ==
    (Len(wire) = 5 /\ wire[1] = 144 /\ \A k \in 2 .. 5 : IsDataByte(wire[k]))
        => events = <<ChannelEvent(EVT_CHAN_NOTE_ON, 1, <<wire[2], wire[3]>>),
                      ChannelEvent(EVT_CHAN_NOTE_ON, 1, <<wire[4], wire[5]>>)>>

\* C8 (running status compression): the running status is retained after an
\* event, so data bytes with no status byte between decode as further
\* messages of the same kind and channel, however the bytes are cut into calls
C8_RunningStatus == C8_RunningStatusKept /\ C8_Example

\* two note-on events from one status byte
C8_Witness ==
    /\ wire = <<144, 5, 127, 127, 5>>
    /\ events = <<ChannelEvent(EVT_CHAN_NOTE_ON, 1, <<5, 127>>),
                  ChannelEvent(EVT_CHAN_NOTE_ON, 1, <<127, 5>>)>>

----------------------------------------------------------------------------
(* Event classification and the unknown-event path (encoder specification) *)

\* the enumerators of enum midi_event, by name
ChannelKinds ==
    {EVT_CHAN_NOTE_OFF, EVT_CHAN_NOTE_ON, EVT_CHAN_POLY_AFTERTOUCH,
     EVT_CHAN_CONTROL_CHANGE, EVT_CHAN_PROGRAM_CHANGE, EVT_CHAN_AFTERTOUCH,
     EVT_CHAN_PITCH_BEND}

RealTimeKinds ==
    {EVT_SYS_REALTIME_TIMING_CLOCK, EVT_SYS_REALTIME_RESERVED_F9,
     EVT_SYS_REALTIME_SEQ_START, EVT_SYS_REALTIME_SEQ_CONTINUE,
     EVT_SYS_REALTIME_SEQ_STOP, EVT_SYS_REALTIME_RESERVED_FD,
     EVT_SYS_REALTIME_ACTIVE_SENSE, EVT_SYS_REALTIME_RESET}

EventTypes ==
    {EVT_TYPE_CHANNEL, EVT_TYPE_SYS_REALTIME, EVT_TYPE_SYS_COMMON, EVT_TYPE_UNKNOWN}

\* C11: every event value given to midi_out_report_event has one of the
\* four classes: the seven channel kinds are CHANNEL, the eight real-time
\* kinds are SYSTEM_REALTIME, every other value (EVT_COUNT, values outside
\* the enumeration) is SYSTEM_COMMON or UNKNOWN; a report of an event of the
\* last two classes returns -1, invokes the send callback zero times and
\* reads no position of event_status_base.
C11_Classification ==
    IsReport(call) =>
        LET evt_type == midi_event_get_type(call.evt) IN
        /\ evt_type \in EventTypes
        /\ call.evt \in ChannelKinds => evt_type = EVT_TYPE_CHANNEL
        /\ call.evt \in RealTimeKinds => evt_type = EVT_TYPE_SYS_REALTIME
        /\ call.evt \notin (ChannelKinds \cup RealTimeKinds)
              => evt_type \in {EVT_TYPE_SYS_COMMON, EVT_TYPE_UNKNOWN}
        /\ evt_type \in {EVT_TYPE_SYS_COMMON, EVT_TYPE_UNKNOWN}
              => /\ ret = -1
                 /\ sent = <<>>
                 /\ table_reads = {}

\* a report of EVT_COUNT with a payload that would pass validation
C11_Witness ==
    /\ IsReport(call)
    /\ call.evt = EVT_COUNT
    /\ call.msg = <<1, 0, 0>>
    /\ ret = -1
    /\ sent = <<>>
    /\ table_reads = {}

----------------------------------------------------------------------------
(* The convenience wrappers (encoder specification) *)

IsReportNote(c) == c.op = "midi_out_report_note"
IsReportControlChange(c) == c.op = "midi_out_report_control_change"

\* the arguments of the last wrapper call
ArgChan == call.msg[1]
ArgData == call.msg[2]
ArgV == call.msg[3]

WrapperInRange == ArgChan \in 1 .. 16 /\ ArgData >= 0 /\ ArgV >= 0

\* exactly one invocation of the send callback, with these three bytes
SentThree(status) ==
    /\ Len(sent) = 1
    /\ sent[1].len = 3
    /\ sent[1].buf = <<status, ArgData, ArgV>>

\* C12: with chan in 1..16 and note/ctrl/v >= 0, midi_out_report_note sends
\* [0x90|(chan-1), note, v] for onoff = 1 and [0x80|(chan-1), note, v] for
\* onoff = 0, midi_out_report_control_change sends [0xB0|(chan-1), ctrl, v],
\* and both return 0; with chan outside 1..16 or a negative note/ctrl/v they
\* return -1 and invoke the send callback zero times.
C12_Wrappers ==
    /\ (IsReportNote(call) /\ WrapperInRange /\ call.onoff = 1)
          => ret = 0 /\ SentThree(BitOr(144, ArgChan - 1))
    /\ (IsReportNote(call) /\ WrapperInRange /\ call.onoff = 0)
          => ret = 0 /\ SentThree(BitOr(128, ArgChan - 1))
    /\ (IsReportControlChange(call) /\ WrapperInRange)
          => ret = 0 /\ SentThree(BitOr(176, ArgChan - 1))
    /\ ((IsReportNote(call) \/ IsReportControlChange(call)) /\ ~WrapperInRange)
          => ret = -1 /\ sent = <<>>

\* note on, channel 16, highest note and velocity: [0x9F, 127, 127]
C12_Witness ==
    /\ IsReportNote(call)
    /\ call.onoff = 1
    /\ call.msg = <<16, 127, 127>>
    /\ ret = 0
    /\ sent[1].buf = <<159, 127, 127>>

\* a control change with a negative value is refused
C12_WitnessNegative ==
    /\ IsReportControlChange(call)
    /\ call.msg = <<1, 0, -1>>
    /\ ret = -1
    /\ sent = <<>>

----------------------------------------------------------------------------
(* The wire format of what is sent (encoder specification) *)

\* C13: every buffer a report operation (midi_out_report_event or a
\* wrapper) passes to the send callback has length 1 or 3, a first byte with
\* the high bit set and every following byte with the high bit clear.
C13_WireFormat ==
    \A k \in 1 .. Len(sent) :
        LET buf == sent[k].buf IN
        /\ sent[k].len = Len(buf)
        /\ Len(buf) \in {1, 3}
        /\ buf[1] \in 128 .. 255
        /\ \A j \in 2 .. Len(buf) : buf[j] \in 0 .. 127

\* a pitch bend on channel 16 with both data bytes at the 7-bit limit
C13_Witness ==
    /\ IsReport(call)
    /\ call.evt = EVT_CHAN_PITCH_BEND
    /\ call.msg = <<16, 127, 127>>
    /\ Len(sent) = 1
    /\ sent[1].buf = <<239, 127, 127>>

----------------------------------------------------------------------------
(* Decoder resynchronisation (decoder specification) *)

\* a status byte of neither class: 0xF0..0xF7
IsOtherStatus(b) == b \in 240 .. 247

\* C14: whatever the decoder state, each byte 0xF0..0xF7 clears
\* running_status and emits no event
C14_OtherStatusClears ==
    \A b \in 240 .. 247 :
        LET r == DecodeByte(InDec, b) IN
        r.out = <<>> /\ r.st.running_status = 0

\* C14: while running_status is unset, each data byte is discarded: no
\* event, and the decoder state stays as it was
C14_DataDiscarded ==
    InDec.running_status = 0 =>
        \A b \in 0 .. 127 : DecodeByte(InDec, b) = [st |-> InDec, out |-> <<>>]

\* C14: when a byte 0xF0..0xF7 of the stream is followed by data bytes and
\* bytes 0xF0..0xF7 only, the events emitted are those emitted before that
\* byte arrived, and running_status is unset
C14_SilentUntilStatus ==
    \A k \in 1 .. Len(wire) :
        (/\ IsOtherStatus(wire[k])
         /\ \A j \in (k + 1) .. Len(wire) : IsDataByte(wire[j]) \/ IsOtherStatus(wire[j]))
        => /\ events = midi_in_recv(FreshDec, SubSeq(wire, 1, k - 1)).out
           /\ InDec.running_status = 0

\* C14: the data byte accumulated before the 0xF0 is part of no event, not
\* even of the message of the next channel status byte
C14_Example ==
    /\ (Len(wire) >= 3 /\ SubSeq(wire, 1, 3) = <<144, 5, 240>>
          /\ \A j \in 4 .. Len(wire) : IsDataByte(wire[j]))
          => events = <<>>
    /\ wire = <<144, 5, 240, 193, 127>>
          => events = <<ChannelEvent(EVT_CHAN_PROGRAM_CHANGE, 2, <<127>>)>>

\* C14 (decoder resynchronisation): a status byte 0xF0..0xF7 clears
\* running_status and emits nothing, data bytes received while
\* running_status is unset are discarded, so no event is emitted until the
\* next channel or real-time status byte, and a partially accumulated
\* channel message is never emitted
C14_Resync ==
    /\ C14_OtherStatusClears
    /\ C14_DataDiscarded
    /\ C14_SilentUntilStatus
    /\ C14_Example

\* a note on cut short by 0xF0, and two data bytes discarded after it
C14_Witness ==
    /\ wire = <<144, 5, 240, 127, 5>>
    /\ events = <<>>
    /\ InDec.running_status = 0

----------------------------------------------------------------------------
(* What destroy leaves and what create clears (lifecycle specification) *)

\* C15, as claimed: after midi_destory of a live handle the stored index of
\* its slot is -1 and the slot is cleared: no registered callback and no
\* opaque argument are left in it (the direction is left out: a cleared
\* direction reads as MIDI_IF_TYPE_IN)
C15_DestroyClears ==
    (IsDestroy(call) /\ was_live) =>
        LET me == gv_ifs[SlotOf(call.pif)] IN
        /\ me.index = -1
        /\ me.cb = NULL
        /\ me.arg = NULL

\* C15, as the code has it: midi_destory of a live handle sets the stored
\* index of its slot to -1 and leaves the direction, the registered
\* callback and the opaque argument of the slot as they were
C15_DestroyStep ==
    (IsDestroy(call') /\ call'.pif \in handles) =>
        LET old == gv_ifs[SlotOf(call'.pif)]
            new == gv_ifs'[SlotOf(call'.pif)] IN
        /\ new.index = -1
        /\ new.type = old.type
        /\ new.cb = old.cb
        /\ new.arg = old.arg

C15_DestroyKeepsContents == [][C15_DestroyStep]_vars

\* a destroyed OUT handle whose slot still holds its callback and argument
C15_Witness ==
    /\ IsDestroy(call)
    /\ was_live
    /\ gv_ifs[SlotOf(call.pif)] =
          [type |-> MIDI_IF_TYPE_OUT, cb |-> 601, arg |-> 701, index |-> -1]

\* C16: the slot of every handle midi_if_create returns holds the requested
\* direction, its own position as index, no callback and a null opaque
\* argument, whatever the slot held before
C16_CreateClears ==
    (IsCreate(call) /\ ret # NULL) =>
        /\ ret \in Handles
        /\ gv_ifs[SlotOf(ret)] =
              [type |-> call.type, cb |-> NULL, arg |-> NULL, index |-> SlotOf(ret)]

\* a create that returned slot 0 a second time, after a callback had been
\* registered on that slot
C16_Witness ==
    /\ IsCreate(call)
    /\ ret = IfAddr(0)
    /\ reused
    /\ held = {IfAddr(0)}
    /\ IfAddr(0) \in ever_cb
    /\ gv_ifs[0].cb = NULL
    /\ gv_ifs[0].arg = NULL

----------------------------------------------------------------------------
(* Stale handles (lifecycle specification) *)

\* C17: midi_destory of a non-null handle goes by the stored index of the
\* slot alone: equal to the position, the slot is freed, whether the
\* reference comes from the create that filled the slot or from an earlier
\* one; not equal, nothing changes
C17_DestroyStep ==
    (IsDestroy(call') /\ call'.pif # NULL) =>
        LET s == SlotOf(call'.pif) IN
        IF gv_ifs[s].index = s
        THEN gv_ifs'[s].index = -1 /\ call'.pif \notin handles'
        ELSE gv_ifs' = gv_ifs

\* C17: a successful report invokes the callback with the argument that the
\* slot holds now, those of its present occupant, and the slot is an OUT slot
C17_ReportUsesOccupant ==
    (IsReport(call) /\ ret = 0) =>
        LET me == gv_ifs[SlotOf(call.pif)] IN
        /\ me.type = MIDI_IF_TYPE_OUT
        /\ sent[1].cb = me.cb
        /\ sent[1].arg = me.arg

\* C17 (stale-handle aliasing): after create -> h, destroy(h), create -> h2
\* in the same slot, h is the same reference as h2: it passes the
\* index-equals-position check, destroy(h) frees the slot of h2 and a report
\* through h uses the direction and callback of h2; only a stored index that
\* disagrees with the position makes a handle invalid
C17_StaleAliasing ==
    /\ [][C17_DestroyStep]_vars
    /\ [](C17_ReportUsesOccupant)
    /\ [][(IsCreate(call') /\ ret' \in held) => ret' \notin handles]_vars

\* the one reference ever handed out, returned twice by create, given to
\* destroy: the slot of the second create is freed
C17_Witness ==
    /\ IsDestroy(call)
    /\ was_live
    /\ reused
    /\ held = {call.pif}
    /\ handles = {}
    /\ gv_ifs[SlotOf(call.pif)].index = -1

----------------------------------------------------------------------------
(* The encoder keeps no state (lifecycle specification) *)

\* what the same report yields on the pool of the encoder specification:
\* one OUT handle, freshly created and registered
ReferenceReport(evt, msg) == midi_out_report_event(SetupPool, OutHandle, evt, msg)

\* C18: a midi_out_report_event call, returning 0 or -1, changes no slot
C18_ReportStep == IsReport(call') => gv_ifs' = gv_ifs

\* C18: the return value of a report and the bytes and length it passes to
\* the send callback are those the same event and payload yield on a fresh
\* pool, whatever was created, destroyed, registered or reported before
C18_ReportByArgumentsOnly ==
    IsReport(call) =>
        LET ref == ReferenceReport(call.evt, call.msg) IN
        /\ ret = ref.ret
        /\ Len(sent) = Len(ref.sent)
        /\ \A k \in 1 .. Len(sent) :
              sent[k].buf = ref.sent[k].buf /\ sent[k].len = ref.sent[k].len

\* C18 (the encoder is stateless): a report leaves every slot as it was, and
\* what it sends and returns depends on its event and payload only
C18_Stateless ==
    /\ [][C18_ReportStep]_vars
    /\ [](C18_ReportByArgumentsOnly)

\* a note on through the handle of slot 1, registered with a null argument,
\* after slot 0 was created, destroyed and created again
C18_Witness ==
    /\ IsReport(call)
    /\ call.pif = IfAddr(1)
    /\ gv_ifs[1].arg = NULL
    /\ reused
    /\ ret = 0
    /\ sent[1].buf = <<144, 60, 100>>

----------------------------------------------------------------------------
(* Live handles are distinct and isolated (crowded-pool specification) *)

IsRegister(c) ==
    c.op \in {"midi_in_register_event_cb", "midi_out_register_send_cb"}

\* every slot but the one at position s is as it was
OthersUnchanged(s) == \A i \in Slots \ {s} : gv_ifs'[i] = gv_ifs[i]

LowestFree(ifs) == CHOOSE i \in FreeSlots(ifs) : \A j \in FreeSlots(ifs) : i <= j

\* C19: midi_if_create returns the free slot of lowest position, which is
\* the slot of no live handle, and NULL when no slot is free; it leaves
\* every other slot as it was
C19_CreateStep ==
    IsCreate(call') =>
        IF FreeSlots(gv_ifs) = {}
        THEN ret' = NULL /\ gv_ifs' = gv_ifs
        ELSE /\ ret' = IfAddr(LowestFree(gv_ifs))
             /\ ret' \notin handles
             /\ OthersUnchanged(SlotOf(ret'))

\* C19: destroy and registration through a handle leave every other slot
\* as it was
C19_OtherSlotsStep ==
    ((IsDestroy(call') \/ IsRegister(call')) /\ call'.pif # NULL)
        => OthersUnchanged(SlotOf(call'.pif))

\* C19: the live handles are the slots whose stored index is their
\* position, one handle a slot, so there are at most MIDI_IF_COUNT_MAX
C19_OneHandleASlot ==
    /\ handles = {IfAddr(i) : i \in {j \in Slots : gv_ifs[j].index = j}}
    /\ Cardinality(handles) <= MIDI_IF_COUNT_MAX

\* C19 (live handles are distinct and isolated): create returns the lowest
\* free slot and never a live one, no two live handles share a slot, there
\* are never more than MIDI_IF_COUNT_MAX, and create, destroy and
\* registration on one handle change no other slot
C19_Isolation ==
    /\ [][C19_CreateStep]_vars
    /\ [][C19_OtherSlotsStep]_vars
    /\ [](C19_OneHandleASlot)

\* slots 2 and 5 destroyed, then a create: it returns slot 2, with slot 5
\* and the last slot free and the registered slots still registered
C19_Witness ==
    /\ IsCreate(call)
    /\ ret = IfAddr(2)
    /\ FreeSlots(gv_ifs) = {5, MIDI_IF_COUNT_MAX - 1}
    /\ gv_ifs[2].cb = NULL
    /\ gv_ifs[4].cb = 601

\* the pool full: as many live handles as slots
C19_WitnessFull ==
    /\ Cardinality(handles) = MIDI_IF_COUNT_MAX
    /\ IsCreate(call)
    /\ ret = NULL

====
